---- MODULE Spec2Model ----
(***************************************************************************)
(* The messaging layer of speech-analyzer: the three queue strategies      *)
(* (queueing/queue_strategy.py), the strategy factory and the QueueManager *)
(* (queueing/queue_manager.py).                                            *)
(*                                                                         *)
(* Python dicts are modelled as sequences of <<key, value>> pairs, in      *)
(* insertion order, because the code iterates over them.  A connection     *)
(* handle (redis_client, pubsub, client) is modelled by whether it is set. *)
(* The backend (Redis server, MQTT broker) is the environment: every call  *)
(* the code makes to it is numbered within one operation, and a call fails *)
(* when the backend is unreachable or when the operation's fault plan      *)
(* names it.                                                               *)
(***************************************************************************)
EXTENDS Integers, Sequences, FiniteSets, TLC

VARIABLES
    config,          \* QueueManager.config: [enabled, queue_type]
    strategy,        \* QueueManager.strategy: None or a strategy object
    subscribers,     \* QueueManager.subscribers: dict topic -> list of callbacks
    backendUp,       \* environment: the Redis server / MQTT broker is reachable
    last,            \* observation of the last operation: arguments and outcome
    factoryInvoked,  \* observation: create_strategy has been called by this Manager
    fin,             \* factory check: the arguments of create_strategy
    fout,            \* factory check: what create_strategy did with them
    rs,              \* history check: a RedisQueueStrategy used directly
    history,         \* history check: the Redis list history:<topic>
    sent,            \* history check: messages of the publishes that returned True
    subscriber,      \* QueueSubscriber: its fields, and where run_forever is
    workers,         \* delivery check: message delivery threads that are running
    mqtt             \* MQTT checks: the broker's side and the threads' positions

vars == <<config, strategy, subscribers, backendUp, last, factoryInvoked,
          fin, fout, rs, history, sent, subscriber, workers,
                   mqtt>>


(***************************************************************************)
(* Bounds of the model.                                                    *)
(***************************************************************************)
\* a fault plan names at most this call of an operation as the failing one
MaxFaultAt == 3
\* publishes made in the history check
MaxPublishes == 102

\* the history list keeps entries 0..99: queue_strategy.py line 157
HistoryCap == 100

Topics == {"t1", "t2"}
Callbacks == {"cb1", "cb2"}
\* callback=None of QueueManager.unsubscribe
NoCallback == "None"

(***************************************************************************)
(* Python dict as an insertion-ordered sequence of <<key, value>> pairs.   *)
(***************************************************************************)
Keys(d) == [i \in DOMAIN d |-> d[i][1]]

Has(d, k) == \E i \in DOMAIN d : d[i][1] = k

Get(d, k) == d[CHOOSE i \in DOMAIN d : d[i][1] = k][2]

\* d[k] = v: replaces the value in place, or appends a new key
Put(d, k, v) ==
    IF Has(d, k)
    THEN [i \in DOMAIN d |-> IF d[i][1] = k THEN <<k, v>> ELSE d[i]]
    ELSE Append(d, <<k, v>>)

\* del d[k]
Del(d, k) == SelectSeq(d, LAMBDA p : p[1] # k)

KeySet(d) == {d[i][1] : i \in DOMAIN d}

\* x in list
InList(l, x) == \E i \in DOMAIN l : l[i] = x

\* list.remove(x): removes the first occurrence
ListRemove(l, x) ==
    LET i == CHOOSE j \in DOMAIN l : l[j] = x /\ \A h \in 1..(j - 1) : l[h] # x
    IN  SubSeq(l, 1, i - 1) \o SubSeq(l, i + 1, Len(l))

Count(l, x) == Cardinality({i \in DOMAIN l : l[i] = x})

(***************************************************************************)
(* The environment: calls to the backend.                                  *)
(* env = [up, at, sticky, n, log]: n calls made so far in this operation; the *)
(* call numbered `at` fails (at = 0: none); a sticky fault is the backend  *)
(* going away at that call, so every later call fails too.                 *)
(***************************************************************************)
FaultPlans ==
    {[at |-> 0, sticky |-> FALSE]} \cup [at : 1..MaxFaultAt, sticky : BOOLEAN]

NoFault == [at |-> 0, sticky |-> FALSE]

\* log: the commands the backend has accepted in this operation, in order
Env(up, plan) ==
    [up |-> up, at |-> plan.at, sticky |-> plan.sticky, n |-> 0, log |-> <<>>]

\* does the next backend call succeed
CallOk(env) ==
    LET k == env.n + 1
    IN  /\ env.up
        /\ (env.at > 0) => (IF env.sticky THEN k < env.at ELSE k # env.at)

\* one call to the backend: whether it succeeded, and the environment afterwards
Call(env, cmd) ==
    [ok  |-> CallOk(env),
     env |-> [env EXCEPT !.n = @ + 1,
                         !.log = IF CallOk(env) THEN Append(@, cmd) ELSE @]]

\* the backend's reachability after the operation
UpAfter(env) == env.up /\ ~(env.sticky /\ env.at > 0 /\ env.n >= env.at)

(***************************************************************************)
(* Payloads: dicts of key/value pairs.  Obj is a value json.dumps rejects. *)
(***************************************************************************)
Obj == "<object>"
OldStamp == "2020-01-01 00:00:00"
Clock == {"2026-01-01 12:00:00"}

Payloads ==
    { << <<"keyword", "hello">> >>,
      << <<"timestamp", OldStamp>>, <<"keyword", "hello">> >>,
      << <<"keyword", Obj>> >> }

Serializable(data) == \A i \in DOMAIN data : data[i][2] # Obj

\* json.dumps(data): the text of the object, as a sequence of tokens
RECURSIVE DumpsItems(_)
DumpsItems(data) ==
    IF data = <<>> THEN <<>>
    ELSE <<Head(data)[1], ":", Head(data)[2]>>
         \o (IF Len(data) > 1 THEN <<",">> ELSE <<>>)
         \o DumpsItems(Tail(data))

Dumps(data) == <<"{">> \o DumpsItems(data) \o <<"}">>

(***************************************************************************)
(* Strategy objects.  One record shape for the three classes; a field a    *)
(* class does not have keeps its initial value.                            *)
(***************************************************************************)
None == [kind |-> "none"]

\* RedisQueueStrategy.__init__
Redis_init ==
    [kind |-> "redis", client |-> FALSE, pubsub |-> FALSE, connected |-> FALSE,
     status |-> "initialized", callbacks |-> <<>>, subscribed_topics |-> {},
     subscription_threads |-> {}]

\* MQTTQueueStrategy.__init__
MQTT_init ==
    [kind |-> "mqtt", client |-> FALSE, pubsub |-> FALSE, connected |-> FALSE,
     status |-> "initialized", callbacks |-> <<>>, subscribed_topics |-> {},
     subscription_threads |-> {}]

\* LoggingQueueStrategy.__init__
Logging_init ==
    [kind |-> "logging", client |-> FALSE, pubsub |-> FALSE, connected |-> FALSE,
     status |-> "connected", callbacks |-> <<>>, subscribed_topics |-> {},
     subscription_threads |-> {}]

\* the result of a strategy method: the object afterwards, the value returned,
\* whether an exception left the method, and the environment afterwards
Res(s, ret, env) == [s |-> s, ret |-> ret, raised |-> FALSE, env |-> env]

Raise(s, env) == [s |-> s, ret |-> FALSE, raised |-> TRUE, env |-> env]

(***************************************************************************)
(* RedisQueueStrategy                                                      *)
(***************************************************************************)
Redis_connect(s, env) ==
    IF s.client THEN Res(s, TRUE, env)
    ELSE LET c == Call(env, <<"PING">>)
         IN  IF c.ok
             THEN Res([s EXCEPT !.client = TRUE, !.pubsub = TRUE,
                                !.status = "connected"], TRUE, c.env)
             ELSE Res([s EXCEPT !.status = "error: connection refused",
                                !.client = FALSE], FALSE, c.env)

\* Redis_publish as it would be if the list were trimmed to 0..100
Redis_publish_trim_late(s, topic, data, env) ==
    LET c == IF ~s.client THEN Redis_connect(s, env) ELSE Res(s, TRUE, env)
    IN  IF ~c.ret THEN Res(c.s, FALSE, c.env)
        ELSE IF ~Serializable(data) THEN Res(c.s, FALSE, c.env)
        ELSE LET message == Dumps(data)
                 p == Call(c.env, <<"PUBLISH", topic, message>>)
                 l == Call(p.env, <<"LPUSH", topic, message>>)
                 t == Call(l.env, <<"LTRIM", topic, 0, HistoryCap>>)
             IN  IF ~p.ok THEN Res(c.s, FALSE, p.env)
                 ELSE IF ~l.ok THEN Res(c.s, FALSE, l.env)
                 ELSE IF ~t.ok THEN Res(c.s, FALSE, t.env)
                 ELSE Res(c.s, TRUE, t.env)

\* Redis_publish as it would be without its try/except
Redis_publish_uncaught(s, topic, data, env) ==
    LET c == IF ~s.client THEN Redis_connect(s, env) ELSE Res(s, TRUE, env)
    IN  IF ~c.ret THEN Res(c.s, FALSE, c.env)
        ELSE IF ~Serializable(data) THEN Raise(c.s, c.env)
        ELSE LET message == Dumps(data)
                 p == Call(c.env, <<"PUBLISH", topic, message>>)
                 l == Call(p.env, <<"LPUSH", topic, message>>)
                 t == Call(l.env, <<"LTRIM", topic, 0, HistoryCap - 1>>)
             IN  IF ~p.ok THEN Raise(c.s, p.env)
                 ELSE IF ~l.ok THEN Raise(c.s, l.env)
                 ELSE IF ~t.ok THEN Raise(c.s, t.env)
                 ELSE Res(c.s, TRUE, t.env)

Redis_publish(s, topic, data, env) ==
    LET c == IF ~s.client THEN Redis_connect(s, env) ELSE Res(s, TRUE, env)
    IN  IF ~c.ret THEN Res(c.s, FALSE, c.env)
        ELSE IF ~Serializable(data) THEN Res(c.s, FALSE, c.env)
        ELSE LET message == Dumps(data)
                 p == Call(c.env, <<"PUBLISH", topic, message>>)
                 l == Call(p.env, <<"LPUSH", topic, message>>)
                 t == Call(l.env, <<"LTRIM", topic, 0, HistoryCap - 1>>)
             IN  IF ~p.ok THEN Res(c.s, FALSE, p.env)
                 ELSE IF ~l.ok THEN Res(c.s, FALSE, l.env)
                 ELSE IF ~t.ok THEN Res(c.s, FALSE, t.env)
                 ELSE Res(c.s, TRUE, t.env)

Redis_subscribe(s, topic, callback, env) ==
    LET c == IF ~s.client THEN Redis_connect(s, env) ELSE Res(s, TRUE, env)
        s1 == [c.s EXCEPT !.callbacks = Put(@, topic, callback)]
        sub == Call(c.env, <<"SUBSCRIBE", topic>>)
    IN  IF ~c.ret THEN Res(c.s, FALSE, c.env)
        ELSE IF ~s1.pubsub THEN Res(s1, FALSE, c.env)
        ELSE IF ~sub.ok THEN Res(s1, FALSE, sub.env)
        ELSE Res([s1 EXCEPT !.subscription_threads = @ \cup {topic}],
                 TRUE, sub.env)

Redis_unsubscribe(s, topic, env) ==
    LET u == Call(env, <<"UNSUBSCRIBE", topic>>)
    IN  IF ~s.pubsub THEN Res(s, FALSE, env)
        ELSE IF ~u.ok THEN Res(s, FALSE, u.env)
        ELSE Res([s EXCEPT !.callbacks = Del(@, topic),
                           !.subscription_threads = @ \ {topic}], TRUE, u.env)

\* for topic in list(self.callbacks.keys()): self.unsubscribe(topic)
RECURSIVE Redis_unsubscribe_all(_, _, _)
Redis_unsubscribe_all(s, topics, env) ==
    IF topics = <<>> THEN Res(s, TRUE, env)
    ELSE LET u == Redis_unsubscribe(s, Head(topics), env)
         IN  Redis_unsubscribe_all(u.s, Tail(topics), u.env)

Redis_close(s, env) ==
    LET u  == IF s.pubsub
              THEN Redis_unsubscribe_all(s, Keys(s.callbacks), env)
              ELSE Res(s, TRUE, env)
        s1 == [u.s EXCEPT !.pubsub = FALSE]
        s2 == IF s1.client
              THEN [s1 EXCEPT !.client = FALSE, !.status = "disconnected"]
              ELSE s1
    IN  Res(s2, TRUE, u.env)

Redis_is_connected(s, env) ==
    IF ~s.client THEN Res(s, FALSE, env)
    ELSE LET c == Call(env, <<"PING">>) IN Res(s, c.ok, c.env)

Redis_status(s, env) ==
    LET c == Redis_is_connected(s, env)
    IN  Res(s, IF c.ret THEN "connected" ELSE s.status, c.env)

(***************************************************************************)
(* MQTTQueueStrategy.  The broker answers a failed publish, subscribe or   *)
(* unsubscribe with a nonzero result code; a failed connect raises inside  *)
(* connect(), and a missing CONNACK is the on-connect handler not          *)
(* reporting success within the 5 second wait.                             *)
(***************************************************************************)
MQTT_is_connected(s) == s.client /\ s.connected

MQTT_unsubscribe(s, topic, env) ==
    LET u  == Call(env, <<"UNSUBSCRIBE", topic>>)
        s1 == [s EXCEPT !.callbacks = Del(@, topic),
                        !.subscribed_topics = @ \ {topic}]
    IN  IF ~MQTT_is_connected(s) THEN Res(s, FALSE, env)
        ELSE Res(s1, u.ok, u.env)

RECURSIVE MQTT_unsubscribe_all(_, _, _)
MQTT_unsubscribe_all(s, topics, env) ==
    IF topics = <<>> THEN Res(s, TRUE, env)
    ELSE LET u == MQTT_unsubscribe(s, Head(topics), env)
         IN  MQTT_unsubscribe_all(u.s, Tail(topics), u.env)

MQTT_close(s, env) ==
    IF ~s.client THEN Res(s, TRUE, env)
    ELSE LET u == MQTT_unsubscribe_all(s, Keys(s.callbacks), env)
             d == Call(u.env, <<"DISCONNECT">>)
         IN  Res([u.s EXCEPT !.client = FALSE, !.connected = FALSE,
                             !.status = "disconnected"], TRUE, d.env)

\* on_connect: for topic in self.subscribed_topics: client.subscribe(topic)
RECURSIVE MQTT_resubscribe(_, _)
MQTT_resubscribe(topics, env) ==
    IF topics = {} THEN env
    ELSE LET t == CHOOSE x \in topics : TRUE
         IN  MQTT_resubscribe(topics \ {t}, Call(env, <<"SUBSCRIBE", t>>).env)

\* connect() as it would be if the expired wait only returned False
MQTT_connect_noclose(s, env) ==
    IF MQTT_is_connected(s) THEN Res(s, TRUE, env)
    ELSE LET s1 == [s EXCEPT !.client = TRUE]
             c  == Call(env, <<"CONNECT">>)
             a  == Call(c.env, <<"CONNACK">>)
         IN  IF ~c.ok
             THEN Res([s1 EXCEPT !.status = "error: connection refused"],
                      FALSE, c.env)
             ELSE IF a.ok
             THEN Res([s1 EXCEPT !.status = "connected", !.connected = TRUE],
                      TRUE, MQTT_resubscribe(s1.subscribed_topics, a.env))
             ELSE Res([s1 EXCEPT !.status = "error: connection timeout"],
                      FALSE, a.env)

MQTT_connect(s, env) ==
    IF MQTT_is_connected(s) THEN Res(s, TRUE, env)
    ELSE LET s1 == [s EXCEPT !.client = TRUE]
             c  == Call(env, <<"CONNECT">>)
             a  == Call(c.env, <<"CONNACK">>)
             cl == MQTT_close(s1, a.env)
         IN  IF ~c.ok
             THEN Res([s1 EXCEPT !.status = "error: connection refused"],
                      FALSE, c.env)
             ELSE IF a.ok
             THEN Res([s1 EXCEPT !.status = "connected", !.connected = TRUE],
                      TRUE, MQTT_resubscribe(s1.subscribed_topics, a.env))
             ELSE Res([cl.s EXCEPT !.status = "error: connection timeout"],
                      FALSE, cl.env)

MQTT_publish(s, topic, data, env) ==
    LET c == IF ~MQTT_is_connected(s) THEN MQTT_connect(s, env)
             ELSE Res(s, TRUE, env)
        p == Call(c.env, <<"PUBLISH", topic, Dumps(data)>>)
    IN  IF ~c.ret THEN Res(c.s, FALSE, c.env)
        ELSE IF ~Serializable(data) THEN Res(c.s, FALSE, c.env)
        ELSE Res(c.s, p.ok, p.env)

MQTT_subscribe(s, topic, callback, env) ==
    LET c  == IF ~MQTT_is_connected(s) THEN MQTT_connect(s, env)
              ELSE Res(s, TRUE, env)
        s1 == [c.s EXCEPT !.callbacks = Put(@, topic, callback),
                          !.subscribed_topics = @ \cup {topic}]
        sub == Call(c.env, <<"SUBSCRIBE", topic>>)
    IN  IF ~c.ret THEN Res(c.s, FALSE, c.env)
        ELSE Res(s1, sub.ok, sub.env)

(***************************************************************************)
(* LoggingQueueStrategy                                                    *)
(***************************************************************************)
Logging_connect(s, env) == Res(s, TRUE, env)

\* json.dumps is called outside any try block
Logging_publish(s, topic, data, env) ==
    IF ~Serializable(data) THEN Raise(s, env) ELSE Res(s, TRUE, env)

Logging_subscribe(s, topic, callback, env) ==
    Res([s EXCEPT !.callbacks = Put(@, topic, callback)], TRUE, env)

\* unsubscribe as it would be if a topic never subscribed were a failure
Logging_unsubscribe_strict(s, topic, env) ==
    Res([s EXCEPT !.callbacks = Del(@, topic)], Has(s.callbacks, topic), env)

Logging_unsubscribe(s, topic, env) ==
    Res([s EXCEPT !.callbacks = Del(@, topic)], TRUE, env)

Logging_close(s, env) == Res([s EXCEPT !.callbacks = <<>>], TRUE, env)

Logging_is_connected(s) == TRUE

(***************************************************************************)
(* The QueueStrategy interface: dispatch on the object's class.            *)
(***************************************************************************)
Strategy_connect(s, env) ==
    CASE s.kind = "redis" -> Redis_connect(s, env)
      [] s.kind = "mqtt" -> MQTT_connect(s, env)
      [] OTHER -> Logging_connect(s, env)

Strategy_publish(s, topic, data, env) ==
    CASE s.kind = "redis" -> Redis_publish(s, topic, data, env)
      [] s.kind = "mqtt" -> MQTT_publish(s, topic, data, env)
      [] OTHER -> Logging_publish(s, topic, data, env)

Strategy_subscribe(s, topic, callback, env) ==
    CASE s.kind = "redis" -> Redis_subscribe(s, topic, callback, env)
      [] s.kind = "mqtt" -> MQTT_subscribe(s, topic, callback, env)
      [] OTHER -> Logging_subscribe(s, topic, callback, env)

Strategy_unsubscribe(s, topic, env) ==
    CASE s.kind = "redis" -> Redis_unsubscribe(s, topic, env)
      [] s.kind = "mqtt" -> MQTT_unsubscribe(s, topic, env)
      [] OTHER -> Logging_unsubscribe(s, topic, env)

Strategy_close(s, env) ==
    CASE s.kind = "redis" -> Redis_close(s, env)
      [] s.kind = "mqtt" -> MQTT_close(s, env)
      [] OTHER -> Logging_close(s, env)

Strategy_is_connected(s, env) ==
    CASE s.kind = "redis" -> Redis_is_connected(s, env)
      [] s.kind = "mqtt" -> Res(s, MQTT_is_connected(s), env)
      [] OTHER -> Res(s, Logging_is_connected(s), env)

Strategy_status(s, env) ==
    CASE s.kind = "redis" -> Redis_status(s, env)
      [] OTHER -> Res(s, s.status, env)

(***************************************************************************)
(* QueueStrategyFactory.  A type tag is a string, modelled as its sequence *)
(* of characters so that str.lower() is computed, not assumed.             *)
(***************************************************************************)
TagRedis == <<"r", "e", "d", "i", "s">>
TagMqtt == <<"m", "q", "t", "t">>
TagLogging == <<"l", "o", "g", "g", "i", "n", "g">>

\* str.lower() on one character
LowerChar(c) ==
    CASE c = "R" -> "r" [] c = "E" -> "e" [] c = "D" -> "d" [] c = "I" -> "i"
      [] c = "S" -> "s" [] c = "M" -> "m" [] c = "Q" -> "q" [] c = "T" -> "t"
      [] c = "L" -> "l" [] c = "O" -> "o" [] c = "G" -> "g" [] c = "N" -> "n"
      [] c = "K" -> "k" [] c = "A" -> "a" [] c = "F" -> "f"
      [] OTHER -> c

Lower(tag) == [i \in DOMAIN tag |-> LowerChar(tag[i])]

\* the keyword parameters of the three constructors
RedisParams == {"url"}
RedisRequired == {"url"}
MQTTParams ==
    {"broker_url", "port", "client_id", "username", "password", "qos", "retain"}
MQTTRequired == {"broker_url"}
LoggingParams == {"log_level"}

\* Class(**kwargs): a TypeError when a required parameter is missing or a
\* keyword is not a parameter of __init__
Construct(obj, params, required, kwargs) ==
    IF required \subseteq kwargs /\ kwargs \subseteq params
    THEN [raised |-> FALSE, s |-> obj]
    ELSE [raised |-> TRUE, s |-> None]

\* create_strategy as it would be if the tag were compared as given
create_strategy_exact(queue_type, kwargs) ==
    IF queue_type = TagRedis
    THEN Construct(Redis_init, RedisParams, RedisRequired, kwargs)
    ELSE IF queue_type = TagMqtt
    THEN Construct(MQTT_init, MQTTParams, MQTTRequired, kwargs)
    ELSE Construct(Logging_init, LoggingParams, {}, kwargs)

create_strategy(queue_type, kwargs) ==
    IF Lower(queue_type) = TagRedis
    THEN Construct(Redis_init, RedisParams, RedisRequired, kwargs)
    ELSE IF Lower(queue_type) = TagMqtt
    THEN Construct(MQTT_init, MQTTParams, MQTTRequired, kwargs)
    ELSE IF Lower(queue_type) = TagLogging
    THEN Construct(Logging_init, LoggingParams, {}, kwargs)
    ELSE Construct(Logging_init, LoggingParams, {}, kwargs)

(***************************************************************************)
(* QueueManager.  A method's result: the Manager's fields afterwards, the  *)
(* value returned, whether an exception left the method, the environment,  *)
(* and what the method did: the strategy methods it called (scalls), the   *)
(* payload it handed to strategy.publish (handed), whether it called the   *)
(* factory (factory), and whether it ran initialize() (reinit).            *)
(***************************************************************************)
\* A value a method computes once and uses several times is written as the
\* member of a one-element set, so that it is evaluated once.
Only(S) == CHOOSE x \in S : TRUE

\* no payload: the method did not reach strategy.publish
NotHanded == << <<"not", "handed">> >>

MRes(st, subs, ret, raised, env, scalls, handed, factory, reinit) ==
    [strategy |-> st, subscribers |-> subs, ret |-> ret, raised |-> raised,
     env |-> env, scalls |-> scalls, handed |-> handed, factory |-> factory,
     reinit |-> reinit]

\* initialize() as it would be without the check of "enabled"
Manager_initialize_unguarded(cfg, st, env) ==
    LET f == IF cfg.queue_type = TagRedis
             THEN create_strategy(TagRedis, {"url"})
             ELSE IF cfg.queue_type = TagMqtt
             THEN create_strategy(TagMqtt, MQTTParams)
             ELSE create_strategy(TagLogging, {})
    IN  Only({[strategy |-> c.s, ret |-> c.ret, env |-> c.env,
               factory |-> TRUE] : c \in {Strategy_connect(f.s, env)}})

Manager_initialize(cfg, st, env) ==
    LET f == IF cfg.queue_type = TagRedis
             THEN create_strategy(TagRedis, {"url"})
             ELSE IF cfg.queue_type = TagMqtt
             THEN create_strategy(TagMqtt, MQTTParams)
             ELSE create_strategy(TagLogging, {})
        fallback == create_strategy(TagLogging, {}).s
    IN  IF ~cfg.enabled
        THEN [strategy |-> st, ret |-> FALSE, env |-> env, factory |-> FALSE]
        ELSE IF f.raised
        THEN [strategy |-> fallback, ret |-> FALSE, env |-> env,
              factory |-> TRUE]
        ELSE Only({IF c.raised
                   THEN [strategy |-> fallback, ret |-> FALSE, env |-> c.env,
                         factory |-> TRUE]
                   ELSE [strategy |-> c.s, ret |-> c.ret, env |-> c.env,
                         factory |-> TRUE]
                   : c \in {Strategy_connect(f.s, env)}})

\* if self.strategy is None or not self.strategy.is_connected: initialize()
\* ok: the caller goes on to use self.strategy
Manager_ensure(cfg, st, env) ==
    Only({IF ic.ret
          THEN [strategy |-> st, ok |-> TRUE, env |-> ic.env,
                factory |-> FALSE, reinit |-> FALSE]
          ELSE Only({[strategy |-> i.strategy, ok |-> i.ret, env |-> i.env,
                      factory |-> i.factory, reinit |-> TRUE]
                     : i \in {Manager_initialize(cfg, st, ic.env)}})
          : ic \in {IF st = None THEN Res(st, FALSE, env)
                    ELSE Strategy_is_connected(st, env)}})

\* the timestamp set whether or not the payload has one
WithTimestamp_overwrite(data, now) == Put(data, "timestamp", now)

\* data["timestamp"] = time.strftime(...) when the key is absent
WithTimestamp(data, now) ==
    IF Has(data, "timestamp") THEN data ELSE Put(data, "timestamp", now)

Manager_publish(cfg, st, subs, topic, data, now, env) ==
    LET d == WithTimestamp(data, now)
    IN  IF ~cfg.enabled
        THEN MRes(st, subs, FALSE, FALSE, env, <<>>, NotHanded, FALSE, FALSE)
        ELSE Only({
            IF ~e.ok
            THEN MRes(e.strategy, subs, FALSE, FALSE, e.env, <<>>, NotHanded,
                      e.factory, e.reinit)
            ELSE Only({MRes(p.s, subs, p.ret, p.raised, p.env, <<"publish">>,
                            d, e.factory, e.reinit)
                       : p \in {Strategy_publish(e.strategy, topic, d, e.env)}})
            : e \in {Manager_ensure(cfg, st, env)}})

Manager_subscribe(cfg, st, subs, topic, callback, env) ==
    LET s0 == IF Has(subs, topic) THEN subs ELSE Put(subs, topic, <<>>)
        s1 == IF InList(Get(s0, topic), callback) THEN s0
              ELSE Put(s0, topic, Append(Get(s0, topic), callback))
    IN  IF ~cfg.enabled
        THEN MRes(st, subs, FALSE, FALSE, env, <<>>, NotHanded, FALSE, FALSE)
        ELSE Only({
            IF ~e.ok
            THEN MRes(e.strategy, subs, FALSE, FALSE, e.env, <<>>, NotHanded,
                      e.factory, e.reinit)
            ELSE Only({MRes(r.s, s1, r.ret, r.raised, r.env, <<"subscribe">>,
                            NotHanded, e.factory, e.reinit)
                       : r \in {Strategy_subscribe(e.strategy, topic, callback,
                                                   e.env)}})
            : e \in {Manager_ensure(cfg, st, env)}})

\* unsubscribe() as it would be if a disconnected Manager dropped the
\* topic's entry of the registry
Manager_unsubscribe_forget(st, subs, topic, callback, env) ==
    LET l0 == Get(subs, topic)
        l1 == IF InList(l0, callback) THEN ListRemove(l0, callback) ELSE l0
        s1 == Put(subs, topic, l1)
        Backend(ic, after) ==
            Only({MRes(u.s, IF u.ret THEN Del(after, topic) ELSE after, u.ret,
                       FALSE, u.env, <<"unsubscribe">>, NotHanded, FALSE, FALSE)
                  : u \in {Strategy_unsubscribe(st, topic, ic.env)}})
    IN  Only({
        IF ~ic.ret
        THEN MRes(st, Del(subs, topic), FALSE, FALSE, ic.env, <<>>, NotHanded,
                  FALSE, FALSE)
        ELSE IF callback # NoCallback /\ Has(subs, topic)
        THEN IF l1 = <<>> THEN Backend(ic, s1)
             ELSE MRes(st, s1, TRUE, FALSE, ic.env, <<>>, NotHanded, FALSE,
                       FALSE)
        ELSE Backend(ic, subs)
        : ic \in {IF st = None THEN Res(st, FALSE, env)
                  ELSE Strategy_is_connected(st, env)}})

\* unsubscribe() as it would be if it left the topic's entry in the registry
Manager_unsubscribe_keep(st, subs, topic, callback, env) ==
    LET l0 == Get(subs, topic)
        l1 == IF InList(l0, callback) THEN ListRemove(l0, callback) ELSE l0
        s1 == Put(subs, topic, l1)
        Backend(ic, after) ==
            Only({MRes(u.s, after, u.ret, FALSE, u.env, <<"unsubscribe">>,
                       NotHanded, FALSE, FALSE)
                  : u \in {Strategy_unsubscribe(st, topic, ic.env)}})
    IN  Only({
        IF ~ic.ret
        THEN MRes(st, subs, FALSE, FALSE, ic.env, <<>>, NotHanded, FALSE, FALSE)
        ELSE IF callback # NoCallback /\ Has(subs, topic)
        THEN IF l1 = <<>> THEN Backend(ic, s1)
             ELSE MRes(st, s1, TRUE, FALSE, ic.env, <<>>, NotHanded, FALSE,
                       FALSE)
        ELSE Backend(ic, subs)
        : ic \in {IF st = None THEN Res(st, FALSE, env)
                  ELSE Strategy_is_connected(st, env)}})

\* unsubscribe() as it would be if it unsubscribed the backend whenever a
\* callback is removed, without looking at the callbacks left
Manager_unsubscribe_eager(st, subs, topic, callback, env) ==
    LET l0 == Get(subs, topic)
        l1 == IF InList(l0, callback) THEN ListRemove(l0, callback) ELSE l0
        s1 == Put(subs, topic, l1)
        Backend(ic, after) ==
            Only({MRes(u.s, IF u.ret THEN Del(after, topic) ELSE after, u.ret,
                       FALSE, u.env, <<"unsubscribe">>, NotHanded, FALSE, FALSE)
                  : u \in {Strategy_unsubscribe(st, topic, ic.env)}})
    IN  Only({
        IF ~ic.ret
        THEN MRes(st, subs, FALSE, FALSE, ic.env, <<>>, NotHanded, FALSE, FALSE)
        ELSE IF callback # NoCallback /\ Has(subs, topic)
        THEN IF l1 = <<>> THEN Backend(ic, s1)
             ELSE Only({MRes(u.s, s1, u.ret, FALSE, u.env, <<"unsubscribe">>,
                             NotHanded, FALSE, FALSE)
                        : u \in {Strategy_unsubscribe(st, topic, ic.env)}})
        ELSE Backend(ic, subs)
        : ic \in {IF st = None THEN Res(st, FALSE, env)
                  ELSE Strategy_is_connected(st, env)}})

Manager_unsubscribe(st, subs, topic, callback, env) ==
    LET \* the branch that removes one callback
        l0 == Get(subs, topic)
        l1 == IF InList(l0, callback) THEN ListRemove(l0, callback) ELSE l0
        s1 == Put(subs, topic, l1)
        \* success = self.strategy.unsubscribe(topic); the entry is deleted
        \* when it succeeded
        Backend(ic, after) ==
            Only({MRes(u.s, IF u.ret THEN Del(after, topic) ELSE after, u.ret,
                       FALSE, u.env, <<"unsubscribe">>, NotHanded, FALSE, FALSE)
                  : u \in {Strategy_unsubscribe(st, topic, ic.env)}})
    IN  Only({
        IF ~ic.ret
        THEN MRes(st, subs, FALSE, FALSE, ic.env, <<>>, NotHanded, FALSE, FALSE)
        ELSE IF callback # NoCallback /\ Has(subs, topic)
        THEN IF l1 = <<>> THEN Backend(ic, s1)
             ELSE MRes(st, s1, TRUE, FALSE, ic.env, <<>>, NotHanded, FALSE,
                       FALSE)
        ELSE Backend(ic, subs)
        : ic \in {IF st = None THEN Res(st, FALSE, env)
                  ELSE Strategy_is_connected(st, env)}})

\* for topic in list(self.subscribers.keys()): self.unsubscribe(topic)
RECURSIVE Manager_unsubscribe_all(_, _, _, _, _)
Manager_unsubscribe_all(st, subs, topics, env, scalls) ==
    IF topics = <<>>
    THEN MRes(st, subs, TRUE, FALSE, env, scalls, NotHanded, FALSE, FALSE)
    ELSE Only({Manager_unsubscribe_all(u.strategy, u.subscribers,
                                       Tail(topics), u.env, scalls \o u.scalls)
               : u \in {Manager_unsubscribe(st, subs, Head(topics),
                                            NoCallback, env)}})

Manager_close(st, subs, env) ==
    Only({IF u.strategy = None
          THEN u
          ELSE Only({MRes(None, u.subscribers, TRUE, c.raised, c.env,
                          Append(u.scalls, "close"), NotHanded, FALSE, FALSE)
                     : c \in {Strategy_close(u.strategy, u.env)}})
          : u \in {Manager_unsubscribe_all(st, subs, Keys(subs), env, <<>>)}})

Manager_is_connected(st, env) ==
    IF st = None THEN Res(st, FALSE, env) ELSE Strategy_is_connected(st, env)

Manager_status(cfg, st, env) ==
    IF ~cfg.enabled THEN Res(st, "disabled", env)
    ELSE IF st = None THEN Res(st, "not initialized", env)
    ELSE Strategy_status(st, env)

(***************************************************************************)
(* The Manager as a state machine.  Init is the state the constructor      *)
(* leaves (it calls initialize()); every method is one action, run on the  *)
(* caller's thread with a fault plan for the backend calls it makes.       *)
(***************************************************************************)
TagUnsupported == <<"R", "E", "D", "I", "S">>

Configs ==
    [enabled : BOOLEAN,
     queue_type : {TagRedis, TagMqtt, TagLogging, TagUnsupported}]

\* the (topic, callback) pairs the callers subscribe
SubscribeInputs == {<<"t1", "cb1">>, <<"t1", "cb2">>, <<"t2", "cb1">>}

\* QueueSubscriber.__init__: no topic, not running; pc is the place of the
\* thread that calls run_forever, stopped whether close() has been called
NoSub ==
    [running |-> FALSE, subscribed_topics |-> {}, callbacks |-> <<>>,
     pc |-> "idle", signals |-> 0, stopped |-> FALSE]

\* the variable of the MQTT checks, when they are not running
NoMqtt == [broker |-> {}]

\* the variables of the factory check, when it is not running
NoCall == [tag |-> <<>>, kwargs |-> {}]
NoResult == [done |-> FALSE, raised |-> FALSE, kind |-> "-"]

\* a backend call of the operation failed
Failed(env) == env.n > Len(env.log)

Accepted(env, name) == \E i \in DOMAIN env.log : env.log[i][1] = name

\* what is observed of an operation: its arguments, its outcome, and
\*   live    the strategy was there and connected when the method checked
\*   initOk  initialize() was run and returned True
\*   first   a subscribe, on a live Manager, of a callback not yet registered
\*   tick    flips with every method call, so that a call is told from a step
\*           of the environment even when it leaves everything else as it was
Observe(op, topic, callback, data, r, live, initOk, first) ==
    [op |-> op, topic |-> topic, callback |-> callback, data |-> data,
     ret |-> r.ret, raised |-> r.raised, scalls |-> r.scalls,
     handed |-> r.handed, live |-> live, reinit |-> r.reinit,
     initOk |-> initOk, failed |-> Failed(r.env),
     published |-> Accepted(r.env, "PUBLISH"), first |-> first,
     tick |-> FALSE]

Init ==
    /\ config \in Configs
    /\ backendUp \in BOOLEAN
    /\ subscribers = <<>>
    /\ \E plan \in FaultPlans :
       \E i \in {Manager_initialize(config, None, Env(backendUp, plan))} :
         LET r == MRes(i.strategy, subscribers, i.ret, FALSE, i.env, <<>>,
                       NotHanded, i.factory, TRUE)
         IN  /\ strategy = i.strategy
             /\ factoryInvoked = i.factory
             /\ last = Observe("init", "-", "-", <<>>, r, FALSE, i.ret, FALSE)
    /\ fin = NoCall
    /\ fout = NoResult
    /\ rs = None
    /\ history = <<>>
    /\ sent = <<>>
    /\ subscriber = NoSub
    /\ workers = 0
    /\ mqtt = NoMqtt

\* a fault plan is told apart from "no fault" only when the backend is reachable
\* and the operation makes the call the plan names
Applies(plan, env) == plan.at = 0 \/ (env.up /\ plan.at <= env.n)

\* the part of a step every Manager method shares
Finish(plan, r, obs) ==
    /\ Applies(plan, r.env)
    /\ strategy' = r.strategy
    /\ subscribers' = r.subscribers
    /\ backendUp' = UpAfter(r.env)
    /\ factoryInvoked' = (factoryInvoked \/ r.factory)
    /\ last' = [obs EXCEPT !.tick = ~last.tick]
    /\ UNCHANGED <<config, fin, fout, rs, history, sent, subscriber, workers,
                   mqtt>>

Publish ==
    \E topic \in Topics, data \in Payloads, now \in Clock, plan \in FaultPlans :
        \E r \in {Manager_publish(config, strategy, subscribers, topic, data,
                                  now, Env(backendUp, plan))} :
            Finish(plan, r,
                   Observe("publish", "-", "-", data, r,
                           config.enabled /\ ~r.reinit,
                           r.reinit /\ r.scalls # <<>>, FALSE))

Subscribe ==
    \E in \in SubscribeInputs, plan \in FaultPlans :
        \E r \in {Manager_subscribe(config, strategy, subscribers, in[1], in[2],
                                    Env(backendUp, plan))} :
            LET topic == in[1]
                callback == in[2]
                live == config.enabled /\ ~r.reinit
                new == \/ ~Has(subscribers, topic)
                       \/ ~InList(Get(subscribers, topic), callback)
            IN  Finish(plan, r,
                       Observe("subscribe", topic, callback, <<>>, r, live,
                               r.reinit /\ r.scalls # <<>>, live /\ new))

Unsubscribe ==
    \E topic \in Topics, callback \in Callbacks \cup {NoCallback},
       plan \in FaultPlans :
        \E r \in {Manager_unsubscribe(strategy, subscribers, topic, callback,
                                      Env(backendUp, plan))} :
        LET ic == Manager_is_connected(strategy, Env(backendUp, plan))
        IN  Finish(plan, r,
                   Observe("unsubscribe", topic, callback, <<>>, r, ic.ret,
                           FALSE, FALSE))

Close ==
    \E plan \in FaultPlans :
        \E r \in {Manager_close(strategy, subscribers, Env(backendUp, plan))} :
            Finish(plan, r,
                   Observe("close", "-", "-", <<>>, r, FALSE, FALSE, FALSE))

IsConnected ==
    \E plan \in FaultPlans :
        \E c \in {Manager_is_connected(strategy, Env(backendUp, plan))} :
        LET r == MRes(strategy, subscribers, c.ret, c.raised, c.env, <<>>,
                      NotHanded, FALSE, FALSE)
        IN  Finish(plan, r,
                   Observe("is_connected", "-", "-", <<>>, r, c.ret, FALSE,
                           FALSE))

Status ==
    \E plan \in FaultPlans :
        \E c \in {Manager_status(config, strategy, Env(backendUp, plan))} :
        LET r == MRes(strategy, subscribers, c.ret, c.raised, c.env, <<>>,
                      NotHanded, FALSE, FALSE)
        IN  Finish(plan, r,
                   Observe("status", "-", "-", <<>>, r, FALSE, FALSE, FALSE))

\* the environment: the backend becomes unreachable, or reachable again
BackendDown ==
    /\ backendUp
    /\ backendUp' = FALSE
    /\ UNCHANGED <<config, strategy, subscribers, last, factoryInvoked,
                   fin, fout, rs, history, sent, subscriber, workers,
                   mqtt>>

BackendUp ==
    /\ ~backendUp
    /\ backendUp' = TRUE
    /\ UNCHANGED <<config, strategy, subscribers, last, factoryInvoked,
                   fin, fout, rs, history, sent, subscriber, workers,
                   mqtt>>

Next ==
    \/ Publish
    \/ Subscribe
    \/ Unsubscribe
    \/ Close
    \/ IsConnected
    \/ Status
    \/ BackendDown
    \/ BackendUp

Spec == Init /\ [][Next]_vars

\* a step in which a Manager method ran
Stepped == last'.tick # last.tick

(***************************************************************************)
(* The factory on its own: create_strategy applied to a tag and keywords.  *)
(***************************************************************************)
FactoryTags ==
    {TagRedis, TagMqtt, TagLogging, TagUnsupported,
     <<"M", "q", "t", "t">>, <<"L", "O", "G", "G", "I", "N", "G">>,
     <<"k", "a", "f", "k", "a">>, <<"r", "e", "d", "i", "s", "s">>, <<>>}

FactoryKwargs == SUBSET {"url", "broker_url", "port", "log_level"}

InitFactory ==
    /\ fin \in [tag : FactoryTags, kwargs : FactoryKwargs]
    /\ fout = NoResult
    /\ config = [enabled |-> FALSE, queue_type |-> TagLogging]
    /\ strategy = None
    /\ subscribers = <<>>
    /\ backendUp = TRUE
    /\ last = [op |-> "init"]
    /\ factoryInvoked = FALSE
    /\ rs = None
    /\ history = <<>>
    /\ sent = <<>>
    /\ subscriber = NoSub
    /\ workers = 0
    /\ mqtt = NoMqtt

CreateStrategy ==
    /\ ~fout.done
    /\ LET f == create_strategy(fin.tag, fin.kwargs)
       IN  fout' = [done |-> TRUE, raised |-> f.raised, kind |-> f.s.kind]
    /\ UNCHANGED <<config, strategy, subscribers, backendUp, last,
                   factoryInvoked, fin, rs, history, sent, subscriber, workers,
                   mqtt>>

NextFactory == CreateStrategy

SpecFactory == InitFactory /\ [][NextFactory]_vars

(***************************************************************************)
(* A RedisQueueStrategy publishing to one topic, and the list              *)
(* history:<topic> on the server.  The server runs the commands it         *)
(* accepted: LPUSH puts the message at the head, LTRIM key start stop      *)
(* keeps the entries start..stop (counted from 0, both ends included).     *)
(***************************************************************************)
HistoryTopic == "t1"

Min(a, b) == IF a <= b THEN a ELSE b

Server_lpush(list, message) == <<message>> \o list

Server_ltrim(list, start, stop) ==
    SubSeq(list, start + 1, Min(stop + 1, Len(list)))

RECURSIVE Server_apply(_, _)
Server_apply(list, log) ==
    IF log = <<>> THEN list
    ELSE LET cmd == Head(log)
             l1  == IF cmd[1] = "LPUSH" THEN Server_lpush(list, cmd[3])
                    ELSE IF cmd[1] = "LTRIM"
                    THEN Server_ltrim(list, cmd[3], cmd[4])
                    ELSE list
         IN  Server_apply(l1, Tail(log))

InitHistory ==
    /\ rs = Redis_init
    /\ history = <<>>
    /\ sent = <<>>
    /\ subscriber = NoSub
    /\ workers = 0
    /\ mqtt = NoMqtt
    /\ backendUp \in BOOLEAN
    /\ last = [op |-> "init", ret |-> TRUE, lost |-> FALSE]
    /\ config = [enabled |-> TRUE, queue_type |-> TagRedis]
    /\ strategy = None
    /\ subscribers = <<>>
    /\ factoryInvoked = FALSE
    /\ fin = NoCall
    /\ fout = NoResult

\* the payload of the next publish, or one that json.dumps rejects
HistoryPayloads ==
    {<< <<"seq", ToString(Len(sent) + 1)>> >>, << <<"seq", Obj>> >>}

\* lost: the publish returned False after the server had accepted its LPUSH;
\* the publishes are followed up to the first one lost
HistoryPublish ==
    \E data \in HistoryPayloads, plan \in FaultPlans :
        LET r == Redis_publish(rs, HistoryTopic, data, Env(backendUp, plan))
            lost == ~r.ret /\ Accepted(r.env, "LPUSH")
        IN  /\ Len(sent) < MaxPublishes
            /\ ~last.lost
            /\ Applies(plan, r.env)
            /\ rs' = r.s
            /\ history' = Server_apply(history, r.env.log)
            /\ sent' = IF r.ret THEN Append(sent, Dumps(data)) ELSE sent
            /\ backendUp' = UpAfter(r.env)
            /\ last' = [op |-> "publish", ret |-> r.ret,
                        lost |-> lost]
            /\ UNCHANGED <<config, strategy, subscribers, factoryInvoked,
                           fin, fout, subscriber, workers,
                   mqtt>>

HistoryClose ==
    \E plan \in FaultPlans :
        LET r == Redis_close(rs, Env(backendUp, plan))
        IN  /\ Applies(plan, r.env)
            /\ rs' = r.s
            /\ backendUp' = UpAfter(r.env)
            /\ last' = [op |-> "close", ret |-> TRUE, lost |-> last.lost]
            /\ UNCHANGED <<config, strategy, subscribers, factoryInvoked,
                           fin, fout, history, sent, subscriber, workers,
                   mqtt>>

NextHistory ==
    \/ HistoryPublish
    \/ HistoryClose
    \/ BackendDown
    \/ BackendUp

SpecHistory == InitHistory /\ [][NextHistory]_vars

(***************************************************************************)
(* A strategy object used directly: any of the three classes, any order of *)
(* connect, publish, subscribe, unsubscribe and close, over a backend that *)
(* comes and goes.                                                         *)
(***************************************************************************)
\* what is observed of a strategy method call:
\*   noack   connect() sent CONNECT and the on-connect handler did not report
\*           success within the wait
\*   closed  close() has been called on this object before or by this call
ObserveStrategy(op, r, data, closed) ==
    [op |-> op, ret |-> r.ret, raised |-> r.raised,
     json |-> Serializable(data),
     noack |-> Accepted(r.env, "CONNECT") /\ ~Accepted(r.env, "CONNACK"),
     closed |-> closed]

InitStrategy ==
    /\ rs \in {Redis_init, MQTT_init, Logging_init}
    /\ backendUp \in BOOLEAN
    /\ last = [op |-> "init", ret |-> TRUE, raised |-> FALSE, json |-> TRUE,
               noack |-> FALSE, closed |-> FALSE]
    /\ config = [enabled |-> FALSE, queue_type |-> TagLogging]
    /\ strategy = None
    /\ subscribers = <<>>
    /\ factoryInvoked = FALSE
    /\ fin = NoCall
    /\ fout = NoResult
    /\ history = <<>>
    /\ sent = <<>>
    /\ subscriber = NoSub
    /\ workers = 0
    /\ mqtt = NoMqtt

\* the part of a step every strategy method shares
FinishStrategy(plan, r, obs) ==
    /\ Applies(plan, r.env)
    /\ rs' = r.s
    /\ backendUp' = UpAfter(r.env)
    /\ last' = obs
    /\ UNCHANGED <<config, strategy, subscribers, factoryInvoked, fin, fout,
                   history, sent, subscriber, workers,
                   mqtt>>

StrategyConnect ==
    \E plan \in FaultPlans :
        \E r \in {Strategy_connect(rs, Env(backendUp, plan))} :
            FinishStrategy(plan, r,
                           ObserveStrategy("connect", r, <<>>, last.closed))

StrategyPublish ==
    \E topic \in Topics, data \in Payloads, plan \in FaultPlans :
        \E r \in {Strategy_publish(rs, topic, data, Env(backendUp, plan))} :
            FinishStrategy(plan, r,
                           ObserveStrategy("publish", r, data, last.closed))

StrategySubscribe ==
    \E in \in SubscribeInputs, plan \in FaultPlans :
        \E r \in {Strategy_subscribe(rs, in[1], in[2], Env(backendUp, plan))} :
            FinishStrategy(plan, r,
                           ObserveStrategy("subscribe", r, <<>>, last.closed))

StrategyUnsubscribe ==
    \E topic \in Topics, plan \in FaultPlans :
        \E r \in {Strategy_unsubscribe(rs, topic, Env(backendUp, plan))} :
            FinishStrategy(plan, r,
                           ObserveStrategy("unsubscribe", r, <<>>, last.closed))

StrategyClose ==
    \E plan \in FaultPlans :
        \E r \in {Strategy_close(rs, Env(backendUp, plan))} :
            FinishStrategy(plan, r, ObserveStrategy("close", r, <<>>, TRUE))

NextStrategy ==
    \/ StrategyConnect
    \/ StrategyPublish
    \/ StrategySubscribe
    \/ StrategyUnsubscribe
    \/ StrategyClose
    \/ BackendDown
    \/ BackendUp

SpecStrategy == InitStrategy /\ [][NextStrategy]_vars

(***************************************************************************)
(* QueueSubscriber (queueing/queue_subscriber.py): a Manager, a set of     *)
(* subscribed topics, a dict topic -> callbacks, and the running flag.     *)
(* A method's result: the Subscriber's fields afterwards (sub) and the     *)
(* result of the last Manager method it called (m).                        *)
(***************************************************************************)
\* signals delivered to the process
MaxSignals == 1

\* self.default_callback, used when subscribe() is given no callback
DefaultCallback == "default_callback"

SubscriberConfigs ==
    [enabled : {TRUE}, queue_type : {TagRedis, TagMqtt, TagLogging}]

\* list(self.subscribed_topics)
TopicList(S) ==
    LET In(tp) == tp \in S IN SelectSeq(<<"t1", "t2">>, In)

Subscriber_subscribe(sb, cfg, st, subs, topic, callback, env) ==
    LET cb == IF callback = NoCallback THEN DefaultCallback ELSE callback
        c0 == IF Has(sb.callbacks, topic) THEN sb.callbacks
              ELSE Put(sb.callbacks, topic, <<>>)
        c1 == IF InList(Get(c0, topic), cb) THEN c0
              ELSE Put(c0, topic, Append(Get(c0, topic), cb))
    IN  Only({[sub |-> [sb EXCEPT !.callbacks = c1,
                                  !.subscribed_topics =
                                      IF r.ret THEN @ \cup {topic} ELSE @],
               m |-> r]
              : r \in {Manager_subscribe(cfg, st, subs, topic, cb, env)}})

Subscriber_unsubscribe(sb, st, subs, topic, callback, env) ==
    LET all == [sb EXCEPT !.callbacks = Del(@, topic),
                          !.subscribed_topics = @ \ {topic}]
        one == IF Has(sb.callbacks, topic)
                  /\ InList(Get(sb.callbacks, topic), callback)
               THEN [sb EXCEPT !.callbacks =
                        Put(@, topic, ListRemove(Get(@, topic), callback))]
               ELSE sb
    IN  Only({[sub |-> IF ~r.ret THEN sb
                       ELSE IF callback = NoCallback THEN all ELSE one,
               m |-> r]
              : r \in {Manager_unsubscribe(st, subs, topic, callback, env)}})

\* for topic in list(self.subscribed_topics): self.unsubscribe(topic)
RECURSIVE Subscriber_unsubscribe_all(_, _, _, _, _)
Subscriber_unsubscribe_all(sb, st, subs, topics, env) ==
    IF topics = <<>>
    THEN [sub |-> sb,
          m |-> MRes(st, subs, TRUE, FALSE, env, <<>>, NotHanded, FALSE, FALSE)]
    ELSE Only({Subscriber_unsubscribe_all(u.sub, u.m.strategy, u.m.subscribers,
                                          Tail(topics), u.m.env)
               : u \in {Subscriber_unsubscribe(sb, st, subs, Head(topics),
                                               NoCallback, env)}})

\* close() as it would be if it closed the Manager before it unsubscribed
Subscriber_close_manager_first(sb, st, subs, env) ==
    Only({Only({[sub |-> [u.sub EXCEPT !.stopped = TRUE], m |-> u.m]
                : u \in {Subscriber_unsubscribe_all(
                             [sb EXCEPT !.running = FALSE], c.strategy,
                             c.subscribers, TopicList(sb.subscribed_topics),
                             c.env)}})
          : c \in {Manager_close(st, subs, env)}})

Subscriber_close(sb, st, subs, env) ==
    Only({[sub |-> [u.sub EXCEPT !.stopped = TRUE],
           m |-> Manager_close(u.m.strategy, u.m.subscribers, u.m.env)]
          : u \in {Subscriber_unsubscribe_all(
                       [sb EXCEPT !.running = FALSE], st, subs,
                       TopicList(sb.subscribed_topics), env)}})

(***************************************************************************)
(* The Subscriber as a state machine.  One thread calls run_forever(); the *)
(* other methods are called before it or from other threads; a termination *)
(* signal runs _signal_handler between two steps of the thread.            *)
(***************************************************************************)
\* the order of a teardown: the release of the connection is the last backend
\* command, and the strategy's close() the last strategy method called
CloseOrdered(log, scalls) ==
    /\ \A i \in DOMAIN log : log[i][1] = "DISCONNECT" => i = Len(log)
    /\ \A i \in DOMAIN scalls : scalls[i] = "close" => i = Len(scalls)

\* what is observed of a Subscriber method: its outcome, whether the Manager
\* was connected when it was called, whether the backend accepted an
\* unsubscribe and the release of the connection, and their order
ObserveSubscriber(op, ret, m) ==
    [op |-> op, ret |-> ret, raised |-> m.raised,
     live |-> Manager_is_connected(strategy, Env(backendUp, NoFault)).ret,
     unsubscribed |-> Accepted(m.env, "UNSUBSCRIBE"),
     released |-> Accepted(m.env, "DISCONNECT"), failed |-> Failed(m.env),
     ordered |-> CloseOrdered(m.env.log, m.scalls)]

InitSubscriber ==
    /\ config \in SubscriberConfigs
    /\ backendUp \in BOOLEAN
    /\ subscribers = <<>>
    /\ subscriber = NoSub
    /\ \E i \in {Manager_initialize(config, None, Env(backendUp, NoFault))} :
         /\ strategy = i.strategy
         /\ factoryInvoked = i.factory
    /\ last = [op |-> "init", ret |-> TRUE, raised |-> FALSE, live |-> FALSE,
               unsubscribed |-> FALSE, released |-> FALSE, failed |-> FALSE,
               ordered |-> TRUE]
    /\ fin = NoCall
    /\ fout = NoResult
    /\ rs = None
    /\ history = <<>>
    /\ sent = <<>>
    /\ workers = 0
    /\ mqtt = NoMqtt

\* the part of a step every Subscriber method shares
FinishSubscriber(plan, r, op, ret) ==
    /\ Applies(plan, r.m.env)
    /\ subscriber' = r.sub
    /\ strategy' = r.m.strategy
    /\ subscribers' = r.m.subscribers
    /\ backendUp' = UpAfter(r.m.env)
    /\ factoryInvoked' = (factoryInvoked \/ r.m.factory)
    /\ last' = ObserveSubscriber(op, ret, r.m)
    /\ UNCHANGED <<config, fin, fout, rs, history, sent, workers,
                   mqtt>>

SubscriberSubscribe ==
    \E topic \in Topics, plan \in FaultPlans :
        \E r \in {Subscriber_subscribe(subscriber, config, strategy,
                                       subscribers, topic, NoCallback,
                                       Env(backendUp, plan))} :
            FinishSubscriber(plan, r, "subscribe", r.m.ret)

SubscriberUnsubscribe ==
    \E topic \in Topics, callback \in {NoCallback, DefaultCallback},
       plan \in FaultPlans :
        \E r \in {Subscriber_unsubscribe(subscriber, strategy, subscribers,
                                         topic, callback,
                                         Env(backendUp, plan))} :
            FinishSubscriber(plan, r, "unsubscribe", r.m.ret)

\* close() called by the program
SubscriberClose ==
    \E plan \in FaultPlans :
        \E r \in {Subscriber_close(subscriber, strategy, subscribers,
                                   Env(backendUp, plan))} :
            FinishSubscriber(plan, r, "close", TRUE)

\* SIGINT or SIGTERM: _signal_handler calls close()
Signal ==
    /\ subscriber.signals < MaxSignals
    /\ subscriber.pc # "done"
    /\ \E plan \in FaultPlans :
        \E r \in {Subscriber_close(
                      [subscriber EXCEPT !.signals = @ + 1], strategy,
                      subscribers, Env(backendUp, plan))} :
            FinishSubscriber(plan, r, "signal", TRUE)

\* run_forever: self.running = True
RunStart ==
    /\ subscriber.pc = "idle"
    /\ subscriber' = [subscriber EXCEPT !.running = TRUE, !.pc = "loop"]
    /\ UNCHANGED <<config, strategy, subscribers, backendUp, last,
                   factoryInvoked, fin, fout, rs, history, sent, workers,
                   mqtt>>

\* run_forever: while self.running: time.sleep(0.1)
RunLoop ==
    /\ subscriber.pc = "loop"
    /\ subscriber' = IF subscriber.running THEN subscriber
                     ELSE [subscriber EXCEPT !.pc = "finally"]
    /\ UNCHANGED <<config, strategy, subscribers, backendUp, last,
                   factoryInvoked, fin, fout, rs, history, sent, workers,
                   mqtt>>

\* run_forever: finally: self.close()
RunFinally ==
    /\ subscriber.pc = "finally"
    /\ \E plan \in FaultPlans :
        \E r \in {Subscriber_close(subscriber, strategy, subscribers,
                                   Env(backendUp, plan))} :
            FinishSubscriber(plan, [r EXCEPT !.sub.pc = "done"], "close", TRUE)

NextSubscriber ==
    \/ SubscriberSubscribe
    \/ SubscriberUnsubscribe
    \/ SubscriberClose
    \/ Signal
    \/ RunStart
    \/ RunLoop
    \/ RunFinally
    \/ BackendDown
    \/ BackendUp

\* the thread that calls run_forever keeps running
SpecSubscriber ==
    /\ InitSubscriber
    /\ [][NextSubscriber]_vars
    /\ WF_vars(RunStart)
    /\ WF_vars(RunLoop)
    /\ WF_vars(RunFinally)

(***************************************************************************)
(* Message delivery.  Redis: subscribe() starts, for a topic that has no   *)
(* thread yet, a thread whose run_in_thread() starts a worker on the one   *)
(* pubsub object; a worker reads a message and runs _message_handler, and  *)
(* an exception that leaves the handler ends that worker.  Several workers *)
(* read the same pubsub: which of them takes a message is not determined,  *)
(* and the handler does the same in each.  MQTT: loop_start() in connect() *)
(* starts the one network thread, which runs on_message.                   *)
(***************************************************************************)
\* what a received message is: well-formed, bytes that are not UTF-8, text
\* that is not JSON, or well-formed and the callback raises on it
MessageKinds == {"json", "not_utf8", "not_json", "callback_raises"}

\* dispatched: the callback was called; escaped: an exception left the handler
Handled(dispatched, escaped) ==
    [dispatched |-> dispatched, escaped |-> escaped]

Redis_message_handler(s, topic, kind) ==
    IF kind = "not_utf8" THEN Handled(FALSE, TRUE)
    ELSE IF ~Has(s.callbacks, topic) THEN Handled(FALSE, FALSE)
    ELSE IF kind = "not_json" THEN Handled(FALSE, FALSE)
    ELSE Handled(TRUE, FALSE)

MQTT_on_message(s, topic, kind) ==
    IF kind = "not_utf8" THEN Handled(FALSE, FALSE)
    ELSE IF ~Has(s.callbacks, topic) THEN Handled(FALSE, FALSE)
    ELSE IF kind = "not_json" THEN Handled(FALSE, FALSE)
    ELSE Handled(TRUE, FALSE)

Strategy_on_message(s, topic, kind) ==
    IF s.kind = "redis" THEN Redis_message_handler(s, topic, kind)
    ELSE MQTT_on_message(s, topic, kind)

\* the threads that deliver messages after a strategy method went from
\* state old to state new
WorkersAfter(old, new, w) ==
    IF new.kind = "mqtt" THEN (IF new.client THEN 1 ELSE 0)
    ELSE w + Cardinality(new.subscription_threads \ old.subscription_threads)

\* the topics the backend sends messages of
Receiving(s) ==
    IF ~s.client THEN {}
    ELSE IF s.kind = "mqtt" THEN s.subscribed_topics
    ELSE KeySet(s.callbacks)

ObserveDelivery(op, topic, kind, h) ==
    [op |-> op, topic |-> topic, kind |-> kind, dispatched |-> h.dispatched,
     escaped |-> h.escaped, tick |-> ~last.tick]

InitDelivery ==
    /\ rs \in {Redis_init, MQTT_init}
    /\ backendUp = TRUE
    /\ workers = 0
    /\ mqtt = NoMqtt
    /\ last = [op |-> "init", topic |-> "-", kind |-> "-",
               dispatched |-> FALSE, escaped |-> FALSE, tick |-> FALSE]
    /\ config = [enabled |-> FALSE, queue_type |-> TagLogging]
    /\ strategy = None
    /\ subscribers = <<>>
    /\ factoryInvoked = FALSE
    /\ fin = NoCall
    /\ fout = NoResult
    /\ history = <<>>
    /\ sent = <<>>
    /\ subscriber = NoSub

\* the part of a step every strategy method shares
FinishDelivery(r, op, topic) ==
    /\ rs' = r.s
    /\ workers' = WorkersAfter(rs, r.s, workers)
    /\ last' = ObserveDelivery(op, topic, "-", Handled(FALSE, FALSE))
    /\ UNCHANGED <<config, strategy, subscribers, backendUp, factoryInvoked,
                   fin, fout, history, sent, subscriber, mqtt>>

DeliveryConnect ==
    \E r \in {Strategy_connect(rs, Env(backendUp, NoFault))} :
        FinishDelivery(r, "connect", "-")

DeliverySubscribe ==
    \E in \in SubscribeInputs :
        \E r \in {Strategy_subscribe(rs, in[1], in[2],
                                     Env(backendUp, NoFault))} :
            FinishDelivery(r, "subscribe", in[1])

\* the backend sends a message of a subscribed topic; a running thread reads
\* it and runs the handler
Arrive ==
    \E topic \in Receiving(rs), kind \in MessageKinds :
        \E h \in {IF workers = 0 THEN Handled(FALSE, FALSE)
                  ELSE Strategy_on_message(rs, topic, kind)} :
            /\ workers' = IF h.escaped THEN workers - 1 ELSE workers
            /\ last' = ObserveDelivery("message", topic, kind, h)
            /\ UNCHANGED <<config, strategy, subscribers, backendUp,
                           factoryInvoked, fin, fout, rs, history, sent,
                           subscriber, mqtt>>

NextDelivery ==
    \/ DeliveryConnect
    \/ DeliverySubscribe
    \/ Arrive

SpecDelivery == InitDelivery /\ [][NextDelivery]_vars

(***************************************************************************)
(* MQTT reconnection.  The client's network thread, started by             *)
(* loop_start(), connects again after the connection is lost and runs      *)
(* on_connect with the broker's return code.  The broker keeps the topics  *)
(* a connection has subscribed and forgets them when the connection ends.  *)
(* The strategy has no on_disconnect handler: _connected stays True while  *)
(* the connection is lost.                                                 *)
(***************************************************************************)
\* the return codes of a connect: accepted, refused
ReturnCodes == {"0", "5"}

\* on_connect as it would be without the loop over the subscribed topics
MQTT_on_connect_forget(s, rc, env) ==
    IF rc = "0"
    THEN Res([s EXCEPT !.status = "connected", !.connected = TRUE], TRUE, env)
    ELSE Res([s EXCEPT !.status = "error: connection failed (code 5)"],
             FALSE, env)

MQTT_on_connect(s, rc, env) ==
    IF rc = "0"
    THEN Res([s EXCEPT !.status = "connected", !.connected = TRUE], TRUE,
             MQTT_resubscribe(s.subscribed_topics, env))
    ELSE Res([s EXCEPT !.status = "error: connection failed (code 5)"],
             FALSE, env)

\* the broker's subscriptions of the client after the commands of log
RECURSIVE Broker_apply(_, _)
Broker_apply(b, log) ==
    IF log = <<>> THEN b
    ELSE LET cmd == Head(log)
             b1  == CASE cmd[1] = "SUBSCRIBE" -> b \cup {cmd[2]}
                      [] cmd[1] = "UNSUBSCRIBE" -> b \ {cmd[2]}
                      [] cmd[1] \in {"CONNECT", "DISCONNECT"} -> {}
                      [] OTHER -> b
         IN  Broker_apply(b1, Tail(log))

ObserveReconnect(op, rc, r) ==
    [op |-> op, rc |-> rc, ret |-> r.ret, failed |-> Failed(r.env),
     attempts |-> r.env.n, acked |-> Accepted(r.env, "CONNACK")]

InitReconnect ==
    /\ rs = MQTT_init
    /\ backendUp \in BOOLEAN
    /\ mqtt = NoMqtt
    /\ last = [op |-> "init", rc |-> "-", ret |-> TRUE, failed |-> FALSE,
               attempts |-> 0, acked |-> FALSE]
    /\ config = [enabled |-> FALSE, queue_type |-> TagLogging]
    /\ strategy = None
    /\ subscribers = <<>>
    /\ factoryInvoked = FALSE
    /\ fin = NoCall
    /\ fout = NoResult
    /\ history = <<>>
    /\ sent = <<>>
    /\ subscriber = NoSub
    /\ workers = 0

\* the part of a step every strategy method and on_connect share
FinishReconnect(plan, r, op, rc) ==
    /\ Applies(plan, r.env)
    /\ rs' = r.s
    /\ backendUp' = UpAfter(r.env)
    /\ mqtt' = [mqtt EXCEPT !.broker = IF UpAfter(r.env)
                                       THEN Broker_apply(@, r.env.log)
                                       ELSE {}]
    /\ last' = ObserveReconnect(op, rc, r)
    /\ UNCHANGED <<config, strategy, subscribers, factoryInvoked, fin, fout,
                   history, sent, subscriber, workers>>

ReconnectConnect ==
    \E plan \in FaultPlans :
        \E r \in {MQTT_connect(rs, Env(backendUp, plan))} :
            FinishReconnect(plan, r, "connect", "0")

ReconnectSubscribe ==
    \E in \in SubscribeInputs, plan \in FaultPlans :
        \E r \in {MQTT_subscribe(rs, in[1], in[2], Env(backendUp, plan))} :
            FinishReconnect(plan, r, "subscribe", "-")

ReconnectUnsubscribe ==
    \E topic \in Topics, plan \in FaultPlans :
        \E r \in {MQTT_unsubscribe(rs, topic, Env(backendUp, plan))} :
            FinishReconnect(plan, r, "unsubscribe", "-")

ReconnectClose ==
    \E plan \in FaultPlans :
        \E r \in {MQTT_close(rs, Env(backendUp, plan))} :
            FinishReconnect(plan, r, "close", "-")

\* the environment: the connection to the broker ends
ConnectionLost ==
    /\ backendUp
    /\ backendUp' = FALSE
    /\ mqtt' = [mqtt EXCEPT !.broker = {}]
    /\ last' = [op |-> "lost", rc |-> "-", ret |-> TRUE, failed |-> FALSE,
                attempts |-> 0, acked |-> FALSE]
    /\ UNCHANGED <<config, strategy, subscribers, factoryInvoked, fin, fout,
                   rs, history, sent, subscriber, workers>>

\* the network thread has connected again and runs on_connect
OnConnect ==
    /\ rs.client
    /\ ~backendUp
    /\ \E rc \in ReturnCodes, plan \in FaultPlans :
        \E r \in {MQTT_on_connect(rs, rc, Env(rc = "0", plan))} :
            FinishReconnect(plan, r, "on_connect", rc)

NextReconnect ==
    \/ ReconnectConnect
    \/ ReconnectSubscribe
    \/ ReconnectUnsubscribe
    \/ ReconnectClose
    \/ ConnectionLost
    \/ OnConnect

SpecReconnect == InitReconnect /\ [][NextReconnect]_vars

(***************************************************************************)
(* Dispatch through the Manager: callbacks are registered with             *)
(* QueueManager.subscribe and the backend delivers messages of the topics  *)
(* the strategy has subscribed; the strategy's handler calls what its own  *)
(* callback table holds for the topic.                                     *)
(***************************************************************************)
\* the callbacks a message of the topic is dispatched to
Invoked(s, topic) ==
    IF Strategy_on_message(s, topic, "json").dispatched
    THEN {Get(s.callbacks, topic)}
    ELSE {}

\* the backend delivers a well-formed message of a subscribed topic
Deliver ==
    /\ strategy # None
    /\ strategy.kind \in {"redis", "mqtt"}
    /\ backendUp
    /\ \E topic \in Receiving(strategy) :
         last' = [op |-> "message", topic |-> topic, callback |-> "-",
                  ret |-> TRUE, invoked |-> Invoked(strategy, topic),
                  tick |-> ~last.tick]
    /\ UNCHANGED <<config, strategy, subscribers, backendUp, factoryInvoked,
                   fin, fout, rs, history, sent, subscriber, workers, mqtt>>

NextDispatch ==
    \/ Subscribe
    \/ Unsubscribe
    \/ Deliver
    \/ BackendDown
    \/ BackendUp

SpecDispatch == Init /\ [][NextDispatch]_vars

(***************************************************************************)
(* MQTT connect(), statement by statement.  The calling thread creates the *)
(* client, starts its network thread with loop_start() and polls _status;  *)
(* the network thread runs on_connect, which sets _status and then         *)
(* _connected.  mqtt = [caller, method, net, cur]: where the calling       *)
(* thread is and for which method, where the network thread of each client *)
(* started so far is, and which of them is self.client's (0: none).        *)
(***************************************************************************)
\* clients whose network thread is started
MaxClients == 2

\* the network threads that are running
Alive(net) == {i \in DOMAIN net : net[i] # "stopped"}

\* what is observed when a method returns; is_connected: the property's
\* value at the moment connect() returned
ObserveHandshake(method, ret, ic) ==
    [op |-> method, ret |-> ret, is_connected |-> ic]

InitHandshake ==
    /\ rs = MQTT_init
    /\ backendUp \in BOOLEAN
    /\ mqtt = [caller |-> "idle", method |-> "-", net |-> <<>>, cur |-> 0]
    /\ last = ObserveHandshake("init", TRUE, FALSE)
    /\ config = [enabled |-> FALSE, queue_type |-> TagLogging]
    /\ strategy = None
    /\ subscribers = <<>>
    /\ factoryInvoked = FALSE
    /\ fin = NoCall
    /\ fout = NoResult
    /\ history = <<>>
    /\ sent = <<>>
    /\ subscriber = NoSub
    /\ workers = 0

\* connect() is entered, from the program or from publish() that found
\* is_connected False: the early return, or the client is created, connected
\* and its loop started (client.connect() raises when the broker is away)
ConnectCall ==
    /\ mqtt.caller = "idle"
    /\ \E method \in {"connect", "publish"} :
        IF MQTT_is_connected(rs)
        THEN /\ last' = ObserveHandshake(method, TRUE, TRUE)
             /\ UNCHANGED <<rs, mqtt>>
        ELSE IF ~backendUp
        THEN /\ rs' = [rs EXCEPT !.client = TRUE,
                                 !.status = "error: connection refused"]
             /\ mqtt' = [mqtt EXCEPT !.cur = 0]
             /\ last' = ObserveHandshake(method, FALSE, FALSE)
        ELSE /\ Len(mqtt.net) < MaxClients
             /\ rs' = [rs EXCEPT !.client = TRUE]
             /\ mqtt' = [caller |-> "waiting", method |-> method,
                         net |-> Append(mqtt.net, "pending"),
                         cur |-> Len(mqtt.net) + 1]
             /\ UNCHANGED last
    /\ UNCHANGED <<config, strategy, subscribers, backendUp, factoryInvoked,
                   fin, fout, history, sent, subscriber, workers>>

\* the wait loop reads _status == "connected": connect() returns True
ConnectPoll ==
    /\ mqtt.caller = "waiting"
    /\ rs.status = "connected"
    /\ mqtt' = [mqtt EXCEPT !.caller = "idle"]
    /\ last' = ObserveHandshake(mqtt.method, TRUE, MQTT_is_connected(rs))
    /\ UNCHANGED <<config, strategy, subscribers, backendUp, factoryInvoked,
                   fin, fout, rs, history, sent, subscriber, workers>>

\* the five seconds are over: close(), status, return False
ConnectTimeout ==
    /\ mqtt.caller = "waiting"
    /\ rs.status # "connected"
    /\ rs' = [rs EXCEPT !.client = FALSE, !.connected = FALSE,
                        !.status = "error: connection timeout"]
    /\ mqtt' = [mqtt EXCEPT !.caller = "idle", !.net[mqtt.cur] = "stopped",
                            !.cur = 0]
    /\ last' = ObserveHandshake(mqtt.method, FALSE, FALSE)
    /\ UNCHANGED <<config, strategy, subscribers, backendUp, factoryInvoked,
                   fin, fout, history, sent, subscriber, workers>>

\* on_connect, first statement: self._status = ...
NetStatus ==
    /\ backendUp
    /\ \E i \in DOMAIN mqtt.net, rc \in ReturnCodes :
        /\ mqtt.net[i] = "pending"
        /\ rs' = [rs EXCEPT !.status =
                     MQTT_on_connect(rs, rc, Env(TRUE, NoFault)).s.status]
        /\ mqtt' = [mqtt EXCEPT !.net[i] = IF rc = "0" THEN "status_set"
                                           ELSE "idle"]
    /\ UNCHANGED <<config, strategy, subscribers, backendUp, last,
                   factoryInvoked, fin, fout, history, sent, subscriber,
                   workers>>

\* on_connect, second statement: self._connected = True
NetFlag ==
    /\ \E i \in DOMAIN mqtt.net :
        /\ mqtt.net[i] = "status_set"
        /\ rs' = [rs EXCEPT !.connected = TRUE]
        /\ mqtt' = [mqtt EXCEPT !.net[i] = "idle"]
    /\ UNCHANGED <<config, strategy, subscribers, backendUp, last,
                   factoryInvoked, fin, fout, history, sent, subscriber,
                   workers>>

\* close(): stops the loop of self.client
HandshakeClose ==
    /\ mqtt.caller = "idle"
    /\ rs.client
    /\ rs' = MQTT_close(rs, Env(backendUp, NoFault)).s
    /\ mqtt' = [mqtt EXCEPT !.cur = 0,
                            !.net = IF mqtt.cur = 0 THEN @
                                    ELSE [@ EXCEPT ![mqtt.cur] = "stopped"]]
    /\ last' = ObserveHandshake("close", TRUE, FALSE)
    /\ UNCHANGED <<config, strategy, subscribers, backendUp, factoryInvoked,
                   fin, fout, history, sent, subscriber, workers>>

NextHandshake ==
    \/ ConnectCall
    \/ ConnectPoll
    \/ ConnectTimeout
    \/ NetStatus
    \/ NetFlag
    \/ HandshakeClose
    \/ BackendDown
    \/ BackendUp

SpecHandshake == InitHandshake /\ [][NextHandshake]_vars

(***************************************************************************)
(* unsubscribe and delivery on two threads.  The caller's thread runs the  *)
(* strategy's subscribe and unsubscribe; the delivery thread runs the      *)
(* message handler, one statement at a time: the membership test, the      *)
(* lookup of the callback, the call.  Neither takes a lock.                *)
(***************************************************************************)
NoHandler == [pc |-> "idle", topic |-> "-", cb |-> NoCallback]

\* op: what ran; dispatched: a callback was called; caught: the handler's
\* except clause took a KeyError; escaped: an exception left the handler;
\* after: the call came after unsubscribe(topic) had returned True
ObserveRace(op, topic, ret, cb, caught, after) ==
    [op |-> op, topic |-> topic, ret |-> ret, cb |-> cb,
     dispatched |-> cb # NoCallback, caught |-> caught, escaped |-> FALSE,
     after |-> after, tick |-> ~last.tick]

InitRace ==
    /\ rs \in {Redis_init, MQTT_init}
    /\ backendUp = TRUE
    /\ workers = 0
    /\ mqtt = [handler |-> NoHandler, unsubscribed |-> {}]
    /\ last = [op |-> "init", topic |-> "-", ret |-> TRUE, cb |-> NoCallback,
               dispatched |-> FALSE, caught |-> FALSE, escaped |-> FALSE,
               after |-> FALSE, tick |-> FALSE]
    /\ config = [enabled |-> FALSE, queue_type |-> TagLogging]
    /\ strategy = None
    /\ subscribers = <<>>
    /\ factoryInvoked = FALSE
    /\ fin = NoCall
    /\ fout = NoResult
    /\ history = <<>>
    /\ sent = <<>>
    /\ subscriber = NoSub

\* subscribe(topic, callback) on the caller's thread
RaceSubscribe ==
    \E in \in SubscribeInputs :
        \E r \in {Strategy_subscribe(rs, in[1], in[2],
                                     Env(backendUp, NoFault))} :
            /\ rs' = r.s
            \* one delivery thread is followed; any other runs the same code
            /\ workers' = IF WorkersAfter(rs, r.s, workers) > 0 THEN 1 ELSE 0
            /\ mqtt' = [mqtt EXCEPT !.unsubscribed =
                            IF Has(r.s.callbacks, in[1]) THEN @ \ {in[1]}
                            ELSE @]
            /\ last' = ObserveRace("subscribe", in[1], r.ret, NoCallback,
                                   FALSE, FALSE)
            /\ UNCHANGED <<config, strategy, subscribers, backendUp,
                           factoryInvoked, fin, fout, history, sent,
                           subscriber>>

\* unsubscribe(topic) on the caller's thread, wherever the handler is
RaceUnsubscribe ==
    \E topic \in Topics :
        \E r \in {Strategy_unsubscribe(rs, topic, Env(backendUp, NoFault))} :
            /\ rs' = r.s
            /\ mqtt' = [mqtt EXCEPT !.unsubscribed =
                            IF r.ret THEN @ \cup {topic} ELSE @]
            /\ last' = ObserveRace("unsubscribe", topic, r.ret, NoCallback,
                                   FALSE, FALSE)
            /\ UNCHANGED <<config, strategy, subscribers, backendUp,
                           factoryInvoked, fin, fout, history, sent,
                           subscriber, workers>>

\* a well-formed message of a topic reaches the handler:
\* if topic in self.callbacks
HandlerTest ==
    \E topic \in Topics :
        /\ workers > 0
        /\ mqtt.handler.pc = "idle"
        /\ mqtt' = [mqtt EXCEPT !.handler =
                        IF Has(rs.callbacks, topic)
                        THEN [pc |-> "tested", topic |-> topic,
                              cb |-> NoCallback]
                        ELSE NoHandler]
        /\ last' = ObserveRace("test", topic, Has(rs.callbacks, topic),
                               NoCallback, FALSE, FALSE)
        /\ UNCHANGED <<config, strategy, subscribers, backendUp,
                       factoryInvoked, fin, fout, rs, history, sent,
                       subscriber, workers>>

\* self.callbacks[topic], inside the try: a KeyError goes to except Exception
HandlerFetch ==
    /\ mqtt.handler.pc = "tested"
    /\ mqtt' = [mqtt EXCEPT !.handler =
                    IF Has(rs.callbacks, mqtt.handler.topic)
                    THEN [pc |-> "fetched", topic |-> mqtt.handler.topic,
                          cb |-> Get(rs.callbacks, mqtt.handler.topic)]
                    ELSE NoHandler]
    /\ last' = ObserveRace("fetch", mqtt.handler.topic,
                           Has(rs.callbacks, mqtt.handler.topic), NoCallback,
                           ~Has(rs.callbacks, mqtt.handler.topic), FALSE)
    /\ UNCHANGED <<config, strategy, subscribers, backendUp, factoryInvoked,
                   fin, fout, rs, history, sent, subscriber, workers>>

\* the call of the callback that was looked up
HandlerCall ==
    /\ mqtt.handler.pc = "fetched"
    /\ mqtt' = [mqtt EXCEPT !.handler = NoHandler]
    /\ last' = ObserveRace("message", mqtt.handler.topic, TRUE,
                           mqtt.handler.cb, FALSE,
                           mqtt.handler.topic \in mqtt.unsubscribed)
    /\ UNCHANGED <<config, strategy, subscribers, backendUp, factoryInvoked,
                   fin, fout, rs, history, sent, subscriber, workers>>

NextRace ==
    \/ RaceSubscribe
    \/ RaceUnsubscribe
    \/ HandlerTest
    \/ HandlerFetch
    \/ HandlerCall
    \/ BackendDown
    \/ BackendUp

SpecRace == InitRace /\ [][NextRace]_vars

(***************************************************************************)
(* Properties.                                                             *)
(***************************************************************************)
Absent == <<"absent">>

\* the registry's list of callbacks for a topic, or Absent
PreOf(subs, topic) == IF Has(subs, topic) THEN Get(subs, topic) ELSE Absent

StatusStrings ==
    {"disabled", "not initialized", "initialized", "connected", "disconnected",
     "error: connection refused", "error: connection timeout"}

\* C1: on a Manager built with enabled=false, whatever methods are called,
\* publish and subscribe return False, create_strategy has never been
\* called and the strategy reference is None.
C1_DisabledDoesNothing ==
    ~config.enabled =>
        /\ strategy = None
        /\ ~factoryInvoked
        /\ last.op \in {"publish", "subscribe"} => last.ret = FALSE

C1_Witness ==
    /\ ~config.enabled
    /\ last.op = "subscribe"
    /\ last.ret = FALSE

\* C2 as stated: subscribe(T, cb) called twice in a row on a connected
\* Manager, cb not registered before: together the two calls make exactly
\* one strategy.subscribe call, and cb is in the registry's list once.
C2_Stated ==
    [][(/\ last.op = "subscribe" /\ last.first
        /\ last'.op = "subscribe" /\ last'.live /\ ~last'.first
        /\ last'.topic = last.topic /\ last'.callback = last.callback)
       => /\ Len(last.scalls) + Len(last'.scalls) = 1
          /\ Count(Get(subscribers', last'.topic), last'.callback) = 1]_vars

\* C3 as stated: on a connected Manager, unsubscribe(T) without a callback
\* always calls strategy.unsubscribe(T); unsubscribe(T, cb) calls it exactly
\* when cb was the last callback registered for T.
C3_Stated ==
    [][(Stepped /\ last'.op = "unsubscribe" /\ last'.live)
       => LET pre == PreOf(subscribers, last'.topic)
              issued == last'.scalls # <<>>
          IN  IF last'.callback = NoCallback THEN issued
              ELSE issued <=> (pre = <<last'.callback>>)]_vars

\* C3, amended: on a connected Manager, unsubscribe(T) without a callback
\* always calls strategy.unsubscribe(T); unsubscribe(T, cb) calls it exactly
\* when no callback other than cb is registered for T: cb was the last one,
\* or T has no callback registered, or no entry in the registry at all.
C3_UnsubscribeWhenNoneLeft ==
    [][(Stepped /\ last'.op = "unsubscribe" /\ last'.live)
       => LET pre == PreOf(subscribers, last'.topic)
              issued == last'.scalls # <<>>
          IN  IF last'.callback = NoCallback THEN issued
              ELSE issued <=>
                     \/ pre = Absent
                     \/ \A i \in DOMAIN pre : pre[i] = last'.callback]_vars

\* one callback was asked to be removed, others are left, and the backend
\* was not called
C3_Witness ==
    /\ last.op = "unsubscribe" /\ last.live
    /\ last.callback # NoCallback
    /\ last.scalls = <<>>
    /\ last.ret = TRUE
    /\ Has(subscribers, last.topic)
    /\ Get(subscribers, last.topic) # <<>>
    /\ ~InList(Get(subscribers, last.topic), last.callback)

\* C4 as stated: when publish or subscribe on an enabled Manager finds the
\* strategy absent or not connected and initialize() fails, the Manager
\* holds a Logging strategy afterwards and the call returns True.
C4_Stated ==
    (/\ last.op \in {"publish", "subscribe"}
     /\ config.enabled /\ last.reinit /\ ~last.initOk)
    => /\ strategy # None
       /\ strategy.kind = "logging"
       /\ last.ret = TRUE

C6_TimestampPresent ==
    last.op = "publish" =>
        /\ (last.handed # NotHanded) <=> (last.scalls # <<>>)
        /\ last.handed # NotHanded =>
             /\ Has(last.handed, "timestamp")
             /\ IF Has(last.data, "timestamp")
                THEN last.handed = last.data
                ELSE /\ Get(last.handed, "timestamp") \in Clock
                     /\ Del(last.handed, "timestamp") = last.data

C6_Witness ==
    /\ last.op = "publish"
    /\ last.handed # NotHanded
    /\ Has(last.data, "timestamp")
    /\ Get(last.handed, "timestamp") = OldStamp

\* C7: after N publishes to one topic that returned True, and none that
\* returned False after the server had accepted its LPUSH, the list
\* history:<topic> has min(N, 100) entries: the last min(N, 100) messages
\* published, the newest first.
C7_HistoryNewestFirst ==
    ~last.lost =>
        /\ Len(history) = Min(Len(sent), HistoryCap)
        /\ \A i \in DOMAIN history : history[i] = sent[Len(sent) - i + 1]

C7_Witness ==
    /\ Len(sent) > HistoryCap
    /\ Len(history) = HistoryCap
    /\ history[1] = sent[Len(sent)]

\* C8: with a Redis or MQTT backend, whatever the backend does, no Manager
\* method raises: publish, subscribe, unsubscribe and is_connected return a
\* boolean, status a status string.
C8_NoException ==
    config.queue_type \in {TagRedis, TagMqtt} =>
        /\ ~last.raised
        /\ last.op \in {"publish", "subscribe", "unsubscribe", "is_connected"}
             => last.ret \in BOOLEAN
        /\ last.op = "status" => last.ret \in StatusStrings

\* a backend call failed inside strategy.publish of a Redis strategy
C8_Witness ==
    /\ config.queue_type = TagRedis
    /\ last.op = "publish"
    /\ last.scalls # <<>>
    /\ last.failed
    /\ last.ret = FALSE

\* C9 as stated: strategy.publish returns False and raises nothing when the
\* payload cannot be serialized, or when the backend did not accept the
\* message (connection lost, broker rejection).
C9_Stated ==
    (/\ last.op = "publish"
     /\ last.handed # NotHanded
     /\ \/ ~Serializable(last.handed)
        \/ strategy.kind # "logging" /\ ~last.published)
    => last.ret = FALSE /\ ~last.raised

\* C10 as stated: once a Redis or MQTT strategy has connected and the
\* backend is lost, is_connected is False.
C10_Stated ==
    (/\ strategy # None
     /\ strategy.kind \in {"redis", "mqtt"}
     /\ strategy.client
     /\ strategy.kind = "mqtt" => strategy.connected
     /\ ~backendUp)
    => ~Strategy_is_connected(strategy, Env(backendUp, NoFault)).ret

\* C11 as stated: after close() of a strategy of any of the three classes,
\* from any state, the strategy's callback table is empty, its connection
\* handles are released and its status is "disconnected".
C11_Stated ==
    last.op = "close" =>
        /\ rs.callbacks = <<>>
        /\ ~rs.client /\ ~rs.pubsub
        /\ rs.status = "disconnected"

\* C13: a Logging strategy, after any sequence of connect, publish,
\* subscribe, unsubscribe and close: is_connected is True, and connect,
\* publish of a payload json.dumps accepts, subscribe and unsubscribe
\* return True and raise nothing.
C13_LoggingAlwaysSucceeds ==
    rs.kind = "logging" =>
        /\ Logging_is_connected(rs)
        /\ (/\ last.op \in {"connect", "publish", "subscribe", "unsubscribe"}
            /\ last.json)
           => last.ret = TRUE /\ ~last.raised

\* a topic never subscribed is unsubscribed from a Logging strategy that was
\* closed before
C13_Witness ==
    /\ rs.kind = "logging"
    /\ last.op = "unsubscribe"
    /\ last.closed
    /\ rs.callbacks = <<>>
    /\ last.ret = TRUE

\* C15: when MQTT connect() has sent CONNECT and the on-connect handler does
\* not report success within the wait, connect() returns False, the client
\* is released, is_connected is False and the status is
\* "error: connection timeout".
C15_ConnectTimeout ==
    (rs.kind = "mqtt" /\ last.op = "connect" /\ last.noack) =>
        /\ last.ret = FALSE
        /\ ~last.raised
        /\ ~rs.client
        /\ ~MQTT_is_connected(rs)
        /\ rs.status = "error: connection timeout"

C15_Witness ==
    /\ rs.kind = "mqtt"
    /\ last.op = "connect"
    /\ last.noack
    /\ last.ret = FALSE
    /\ rs.status = "error: connection timeout"

\* C12 as stated: after Manager.close(), from any state, the registry is
\* empty and the strategy reference is None.
C12_Stated ==
    last.op = "close" => subscribers = <<>> /\ strategy = None

\* C14: on an enabled Manager with a Logging strategy, subscribe(T, cb)
\* returns True, and an unsubscribe(T) that follows it immediately returns
\* True and leaves no entry for T in the registry and every other topic's
\* entry as it was.
C14_SubscribeThenUnsubscribe ==
    [][(/\ config.enabled
        /\ config.queue_type \in {TagLogging, TagUnsupported}
        /\ last.op = "subscribe"
        /\ Stepped
        /\ last'.op = "unsubscribe"
        /\ last'.topic = last.topic
        /\ last'.callback = NoCallback)
       => /\ last.ret = TRUE
          /\ last'.ret = TRUE
          /\ ~Has(subscribers', last.topic)
          /\ \A t \in Topics \ {last.topic} :
                PreOf(subscribers', t) = PreOf(subscribers, t)]_vars

\* a topic was unsubscribed on a Logging-backed Manager and the other topic is
\* still registered
C14_Witness ==
    /\ config.enabled
    /\ strategy # None
    /\ strategy.kind = "logging"
    /\ last.op = "unsubscribe"
    /\ last.callback = NoCallback
    /\ last.ret = TRUE
    /\ last.scalls = <<"unsubscribe">>
    /\ ~Has(subscribers, last.topic)
    /\ subscribers # <<>>

\* C19 as stated: whenever an enabled Manager holds a strategy, the topics of
\* the Manager's registry are the topics of the strategy's callback table.
C19_Stated ==
    (config.enabled /\ strategy # None) =>
        KeySet(subscribers) = KeySet(strategy.callbacks)

\* C20 as stated: when initialize() replaces a strategy the Manager holds,
\* the replaced object has been closed: it holds no client and no pubsub.
C20_Stated ==
    [][(Stepped /\ strategy # None /\ config.enabled /\ last'.reinit)
       => ~strategy.client /\ ~strategy.pubsub]_vars

\* C16 as stated: once a termination signal has been handled or close() has
\* been called, at whatever moment, run_forever() eventually returns.
C16_Stated == subscriber.stopped ~> (subscriber.pc = "done")

\* C17 as stated: after QueueSubscriber.close(), whatever the backend does,
\* running is False, subscribed_topics is empty, the Manager is closed and
\* nothing was raised.
C17_Stated ==
    last.op \in {"close", "signal"} =>
        /\ ~subscriber.running
        /\ subscriber.subscribed_topics = {}
        /\ strategy = None
        /\ ~last.raised

\* C18 as stated: for Redis and for MQTT, whatever message of a subscribed
\* topic arrives (not UTF-8, not JSON, or one the callback raises on), the
\* callback table and the subscription are unchanged, the delivery threads
\* keep running, and a well-formed message is dispatched to the callback.
C18_Stated ==
    [][(Stepped /\ last'.op = "message") =>
          /\ rs' = rs
          /\ workers' = workers
          /\ ~last'.escaped
          /\ (last'.kind = "json" => last'.dispatched)]_vars

\* the handles and flags that say whether a strategy is there and connected
Connection(st) ==
    IF st = None THEN <<"none">>
    ELSE <<st.kind, st.client, st.pubsub, st.connected>>

C22_Stated == rs.kind = "redis" => workers <= 1

C24_Stated ==
    last.op \in {"subscribe", "unsubscribe"} =>
        /\ subscriber.subscribed_topics = KeySet(subscribers)
        /\ KeySet(subscriber.callbacks) = KeySet(subscribers)
        /\ \A topic \in KeySet(subscribers) :
              Get(subscriber.callbacks, topic) = Get(subscribers, topic)

\* C25: in every QueueSubscriber.close(), from the program, a signal or
\* run_forever, the release of the backend connection is the last backend
\* command issued, after every unsubscribe, the strategy's close() is the last
\* strategy method called, and the Manager holds no strategy afterwards; when
\* the Manager was connected and no backend call failed, the Subscriber has
\* unsubscribed every topic it tracked while the strategy was still there.
C25_TeardownOrder ==
    last.op \in {"close", "signal"} =>
        /\ last.ordered
        /\ strategy = None
        /\ (last.live /\ ~last.failed) => subscriber.subscribed_topics = {}

\* a close() whose unsubscribe and disconnect the broker both accepted
C25_Witness ==
    /\ last.op \in {"close", "signal"}
    /\ last.unsubscribed
    /\ last.released
    /\ last.ordered
    /\ last.live
    /\ ~last.failed
    /\ subscriber.subscribed_topics = {}

\* the callbacks of a list
ListSet(l) == {l[i] : i \in DOMAIN l}

\* C26 as stated: after unsubscribe(T, cb) has returned True, a message
\* delivered on T is not dispatched to cb, also when other callbacks are
\* still registered for T.
C26_Stated ==
    [][(/\ last.op = "unsubscribe"
        /\ last.callback # NoCallback
        /\ last.ret = TRUE
        /\ Stepped
        /\ last'.op = "message"
        /\ last'.topic = last.topic) => last.callback \notin last'.invoked]_vars

\* C27 as stated: a message delivered on T is dispatched to each callback
\* the Manager's registry has for T.
C27_Stated ==
    (last.op = "message" /\ Has(subscribers, last.topic)) =>
        ListSet(Get(subscribers, last.topic)) \subseteq last.invoked

\* C28 as stated: whenever subscribe(T, cb) or unsubscribe(T, cb) of the
\* Manager returns False, the registry is what it was before the call.
C28_Stated ==
    [][(/\ Stepped
        /\ last'.op \in {"subscribe", "unsubscribe"}
        /\ last'.ret = FALSE) => subscribers' = subscribers]_vars

\* C29 as stated: whenever connect() returns True, from the program or inside
\* publish, is_connected is True at that moment under every interleaving with
\* the network thread, and never is a second client opened beside a running one.
C29_Stated ==
    /\ (last.op \in {"connect", "publish"} /\ last.ret) => last.is_connected
    /\ Cardinality(Alive(mqtt.net)) <= 1

\* C30: when unsubscribe(T) on the caller's thread interleaves with the
\* dispatch of a message of T on the delivery thread, no exception leaves the
\* handler, and no callback is called for T after unsubscribe(T) has returned
\* True.
C30_Stated ==
    /\ ~last.escaped
    /\ (last.op = "message" /\ last.dispatched) => ~last.after

====
